---- MODULE Spec2Model ----
(***************************************************************************)
(* couchfs: a read-only FUSE view of a CouchDB server                      *)
(* (src/couchfs/couch.py, src/couchfs/utils.py).                           *)
(*                                                                         *)
(* Strings are sequences of one-character strings.  The token "U+00E9"     *)
(* stands for the single non-ASCII character e-acute.  The remote server   *)
(* is the environment: it maps an address to an HTTP response, keeps the   *)
(* list of databases and the rows of every database's _all_docs view.      *)
(* Python exceptions are modelled as results of kind "raise".              *)
(***************************************************************************)
EXTENDS Integers, Sequences, FiniteSets, TLC

\* ------------------------------------------------------------------ bounds
MaxUpdates == 1
SmallRead == 4
MaxOffset == 2

\* ----------------------------------------------------------- string basics
JSON_SUFFIX == <<".", "j", "s", "o", "n">>
DESIGN_PREFIX == <<"_", "d", "e", "s", "i", "g", "n", "/">>
NonAscii == "U+00E9"

Min(a, b) == IF a < b THEN a ELSE b

startswith(s, pre) ==
    /\ Len(pre) <= Len(s)
    /\ SubSeq(s, 1, Len(pre)) = pre

\* str.rpartition(sep): split at the LAST occurrence of sep;
\* (head, sep, tail), or ('', '', s) when sep does not occur.
rpartition(s, sep) ==
    LET hits == {i \in 1..Len(s) :
                    /\ i + Len(sep) - 1 <= Len(s)
                    /\ SubSeq(s, i, i + Len(sep) - 1) = sep}
    IN IF hits = {}
       THEN <<<<>>, <<>>, s>>
       ELSE LET i == CHOOSE j \in hits : \A k \in hits : k <= j
            IN <<SubSeq(s, 1, i - 1), sep, SubSeq(s, i + Len(sep), Len(s))>>

\* Python slice b[lo:hi] for 0 <= lo, 0 <= hi.
Slice(b, lo, hi) == SubSeq(b, lo + 1, Min(hi, Len(b)))

\* ------------------------------------------------------------ JSON values
\* A decoded JSON object is an ordered sequence of items (key, value); a
\* value is a string (t = "str", s) or a non-negative integer (t = "int", n).
StrItem(k, v) == [k |-> k, t |-> "str", s |-> v, n |-> 0]
IntItem(k, v) == [k |-> k, t |-> "int", s |-> <<>>, n |-> v]

\* what Response.json() / Response.text give: a dict, another JSON value
\* (list, string, number), or text that does not decode
Dict(items) == [kind |-> "dict", items |-> items]
NonDict == [kind |-> "list", items |-> <<>>]
Undecodable == [kind |-> "raw", items |-> <<>>]

\* key in doc
has_key(doc, key) == \E i \in 1..Len(doc.items) : doc.items[i].k = key

\* dict.get(key) followed by the truth test of `if`: a missing key gives
\* None, and None, '' and 0 are all false.
get_truthy(doc, key) ==
    \E i \in 1..Len(doc.items) :
        /\ doc.items[i].k = key
        /\ IF doc.items[i].t = "str" THEN doc.items[i].s # <<>>
                                      ELSE doc.items[i].n # 0

K_db_name == <<"d", "b", "_", "n", "a", "m", "e">>
K_update_seq == <<"u", "p", "d", "a", "t", "e", "_", "s", "e", "q">>
K_id == <<"_", "i", "d">>
K_rev == <<"_", "r", "e", "v">>

\* utils.is_db / utils.is_doc: the assert (AssertionError for a list, string
\* or number; with asserts compiled out the .get that follows raises
\* AttributeError instead), then the test
isinstance_dict(doc) == doc.kind = "dict"

is_db(doc) == get_truthy(doc, K_db_name) /\ get_truthy(doc, K_update_seq)

is_doc(doc) == get_truthy(doc, K_id) /\ get_truthy(doc, K_rev)

\* doc['db_name']
db_name_of(doc) ==
    LET i == CHOOSE j \in 1..Len(doc.items) : doc.items[j].k = K_db_name
    IN doc.items[i].s

\* ------------------------------------------------------- json.dumps, encode
Digit(d) == <<"0", "1", "2", "3", "4", "5", "6", "7", "8", "9">>[d + 1]

RECURSIVE Digits(_)
Digits(n) == IF n < 10 THEN <<Digit(n)>>
             ELSE Digits(n \div 10) \o <<Digit(n % 10)>>

EscapeChar(c, ensure_ascii) ==
    IF c = "\"" THEN <<"\\", "\"">>
    ELSE IF c = "\\" THEN <<"\\", "\\">>
    ELSE IF c = NonAscii /\ ensure_ascii THEN <<"\\", "u", "0", "0", "e", "9">>
    ELSE <<c>>

RECURSIVE EscapeStr(_, _)
EscapeStr(s, ensure_ascii) ==
    IF s = <<>> THEN <<>>
    ELSE EscapeChar(Head(s), ensure_ascii) \o EscapeStr(Tail(s), ensure_ascii)

Quoted(s, ensure_ascii) == <<"\"">> \o EscapeStr(s, ensure_ascii) \o <<"\"">>

DumpItem(it, ensure_ascii) ==
    Quoted(it.k, ensure_ascii) \o <<":", " ">> \o
    (IF it.t = "str" THEN Quoted(it.s, ensure_ascii) ELSE Digits(it.n))

RECURSIVE DumpItems(_, _)
DumpItems(items, ensure_ascii) ==
    IF Len(items) = 1 THEN DumpItem(items[1], ensure_ascii)
    ELSE DumpItem(items[1], ensure_ascii) \o <<",", "\n", " ", " ">>
         \o DumpItems(Tail(items), ensure_ascii)

\* json.dumps(doc, indent=2, ensure_ascii=...): the text, as characters
dumps(doc, ensure_ascii) ==
    IF doc.items = <<>> THEN <<"{", "}">>
    ELSE <<"{", "\n", " ", " ">> \o DumpItems(doc.items, ensure_ascii)
         \o <<"\n", "}">>

\* str.encode(): UTF-8, one byte per ASCII character, two for U+00E9
RECURSIVE encode(_)
encode(s) ==
    IF s = <<>> THEN <<>>
    ELSE (IF Head(s) = NonAscii THEN <<"0xC3", "0xA9">> ELSE <<Head(s)>>)
         \o encode(Tail(s))

\* ------------------------------------------------------- names and paths
ALPHA == <<"a", "l", "p", "h", "a">>
BETA == <<"b", "e", "t", "a">>
DOC1 == <<"d", "o", "c", "1">>
VIEW1 == <<"v", "i", "e", "w", "1">>
XJSON == <<"x">> \o JSON_SUFFIX
ALL_DBS == <<"_", "a", "l", "l", "_", "d", "b", "s">>
NOSUCH == <<"n", "o", "s", "u", "c", "h">>
BAK == <<".", "b", "a", "k">>
SLASH == <<"/">>
DOT == <<".">>
DOTDOT == <<".", ".">>

ROOT == SLASH
P_db == SLASH \o ALPHA
P_doc == SLASH \o ALPHA \o SLASH \o DOC1 \o JSON_SUFFIX
P_bak == SLASH \o ALPHA \o SLASH \o DOC1 \o JSON_SUFFIX \o BAK
P_deep == SLASH \o ALPHA \o SLASH \o DESIGN_PREFIX \o VIEW1 \o JSON_SUFFIX
P_nosuch == SLASH \o NOSUCH

\* the paths the FUSE dispatcher hands to the operations
Paths == {ROOT, P_db, P_doc, P_bak, P_deep, P_nosuch}

\* the (size, offset) pairs of read requests
PageSize == 4096
ReadArgs == {<<SmallRead, 0>>, <<SmallRead, MaxOffset>>, <<PageSize, 0>>}

\* number of segments of a path: '/' has none
Depth(path) ==
    IF path = ROOT THEN 0
    ELSE Cardinality({i \in 1..Len(path) : path[i] = "/"})

\* ----------------------------------------------------- the remote server
OK == 200
NOT_FOUND == 404

Resp(code, body) == [status_code |-> code, body |-> body]

B_db == Dict(<<StrItem(K_db_name, ALPHA), IntItem(K_update_seq, 5)>>)
B_fresh == Dict(<<StrItem(K_db_name, BETA), IntItem(K_update_seq, 0)>>)
B_doc1 == Dict(<<StrItem(K_id, DOC1), StrItem(K_rev, <<"1">>)>>)
B_doc1b == Dict(<<StrItem(K_id, DOC1), StrItem(K_rev, <<"2">>),
                  StrItem(<<"v">>, <<NonAscii, "\"">>)>>)
B_design == Dict(<<StrItem(K_id, DESIGN_PREFIX \o VIEW1),
                   StrItem(K_rev, <<"1">>)>>)
B_both == Dict(<<StrItem(K_db_name, ALPHA), IntItem(K_update_seq, 12),
                 StrItem(K_id, ALPHA), StrItem(K_rev, <<"1">>)>>)
B_welcome == Dict(<<StrItem(<<"c", "o", "u", "c", "h", "d", "b">>,
                            <<"W", "e", "l", "c", "o", "m", "e">>)>>)
B_missing == Dict(<<StrItem(<<"e", "r", "r", "o", "r">>,
                            <<"n", "o", "t", "_", "f", "o", "u", "n", "d">>)>>)

Missing == Resp(NOT_FOUND, B_missing)

\* what the server may come to answer at an address
Responses ==
    {Resp(OK, B_db), Resp(OK, B_fresh), Resp(OK, B_doc1), Resp(OK, B_doc1b),
     Resp(OK, B_both), Resp(OK, B_welcome), Resp(OK, NonDict),
     Resp(OK, Undecodable), Missing,
     Resp(500, B_doc1)}

\* the addresses whose answer other clients change; the server's own root
\* (the empty address) always answers with its welcome object
Addresses ==
    {ALPHA, ALPHA \o SLASH \o DOC1, ALPHA \o SLASH \o DESIGN_PREFIX \o VIEW1}

DbNames == {ALPHA, BETA}

DbLists == {<<ALPHA>>, <<ALPHA, BETA>>, <<>>}

Listings ==
    {<<DOC1, DESIGN_PREFIX \o VIEW1>>,
     <<DESIGN_PREFIX \o VIEW1, XJSON, DOC1>>,
     <<>>}

VARIABLES objects, all_dbs, all_docs, nupd, ret

vars == <<objects, all_dbs, all_docs, nupd, ret>>

\* account.get(address): the server answers 404 for what it does not hold
account_get(objs, addr) ==
    IF addr \in DOMAIN objs THEN objs[addr] ELSE Missing

\* ---------------------------------------------------------------- results
NoAttr == [st_mode |-> <<"", "">>, st_nlink |-> 0, st_size |-> 0]

Raise(e) == [kind |-> "raise", exc |-> e, attr |-> NoAttr,
             names |-> <<>>, data |-> <<>>]
Attrs(ftype, nlink, size) ==
    [kind |-> "attrs", exc |-> "",
     attr |-> [st_mode |-> <<ftype, "0o755">>, st_nlink |-> nlink,
               st_size |-> size],
     names |-> <<>>, data |-> <<>>]
RootAttrs(nlink) ==
    [kind |-> "rootattrs", exc |-> "",
     attr |-> [st_mode |-> <<"S_IFDIR", "0o755">>, st_nlink |-> nlink,
               st_size |-> 0],
     names |-> <<>>, data |-> <<>>]
Names(ns) == [kind |-> "names", exc |-> "", attr |-> NoAttr,
              names |-> ns, data |-> <<>>]
Bytes(d) == [kind |-> "bytes", exc |-> "", attr |-> NoAttr,
             names |-> <<>>, data |-> d]
None == [kind |-> "none", exc |-> "", attr |-> NoAttr,
         names |-> <<>>, data |-> <<>>]

\* ------------------------------------------------------------- Couch core
\* _get_doc_id applied to the last segment of the path only
_get_doc_id_leaf(path) ==
    LET leaf == rpartition(path, SLASH)[3]
        name_part == rpartition(leaf, JSON_SUFFIX)
    IN IF name_part[2] # <<>> THEN name_part[1] ELSE name_part[3]

\* Couch._get_doc_id: the part before the last '.json', else the whole path
_get_doc_id(path) ==
    LET name_part == rpartition(path, JSON_SUFFIX)
    IN IF name_part[2] # <<>> THEN name_part[1] ELSE name_part[3]

\* _get_doc_formated with non-ASCII characters left unescaped
_get_doc_formated_raw(doc) == dumps(doc, FALSE)

\* Couch._get_doc_formated: dumps(doc, indent=2), ensure_ascii left on
_get_doc_formated(doc) == dumps(doc, TRUE)

\* what _get_doc hands back: an exception, the body, or the formatted text
Raised(e) == [kind |-> "raise", exc |-> e, body |-> Undecodable, text |-> <<>>]
Body(b) == [kind |-> "body", exc |-> "", body |-> b, text |-> <<>>]
Text(t) == [kind |-> "text", exc |-> "", body |-> Undecodable, text |-> t]

\* Couch._get_doc without the 404 test
_get_doc_no404(objs, path, check_doc, formated) ==
    LET res == account_get(objs, _get_doc_id(path))
        code == res.status_code
        body == res.body
    IN IF code # OK THEN Raised("IndexError")
       ELSE IF body.kind = "raw" THEN Raised("TypeError")
       ELSE IF check_doc /\ ~isinstance_dict(body) THEN Raised("AssertionError")
       ELSE IF check_doc /\ ~is_doc(body) THEN Raised("NameError")
       ELSE IF formated THEN Text(_get_doc_formated(body))
       ELSE Body(body)

\* Couch._get_doc (never called with raw=True):
\*   404                      -> FuseOSError(ENOENT)
\*   any other status but 200 -> 'content {}{}'.format(one argument) raises
\*                               IndexError while the log line is built
\*   body that does not decode-> `except JSONDecoder` names a class that is
\*                               not an exception: TypeError
\*   check_doc, not a dict    -> is_doc's assert
\*   check_doc, not a document-> FuseOSError(EIO) with EIO never imported:
\*                               NameError
_get_doc(objs, path, check_doc, formated) ==
    LET res == account_get(objs, _get_doc_id(path))
        code == res.status_code
        body == res.body
    IN IF code = NOT_FOUND THEN Raised("ENOENT")
       ELSE IF code # OK THEN Raised("IndexError")
       ELSE IF body.kind = "raw" THEN Raised("TypeError")
       ELSE IF check_doc /\ ~isinstance_dict(body) THEN Raised("AssertionError")
       ELSE IF check_doc /\ ~is_doc(body) THEN Raised("NameError")
       ELSE IF formated THEN Text(_get_doc_formated(body))
       ELSE Body(body)

\* Couch.read
Couch_read(objs, path, size, offset) ==
    LET body == _get_doc(objs, Tail(path), TRUE, TRUE)
    IN IF body.kind = "raise" THEN Raise(body.exc)
       ELSE Bytes(Slice(encode(body.text), offset, offset + size))

\* the names readdir makes of the rows of db.all_docs(), design ids kept
docs_of_unfiltered(rows) == [i \in 1..Len(rows) |-> rows[i] \o JSON_SUFFIX]

\* the names readdir makes of the rows of db.all_docs()
docs_of(rows) ==
    LET kept == SelectSeq(rows, LAMBDA x : ~startswith(x, DESIGN_PREFIX))
    IN [i \in 1..Len(kept) |-> kept[i] \o JSON_SUFFIX]

\* Couch.readdir
Couch_readdir(objs, dbs, docs, path) ==
    IF path = ROOT THEN Names(<<DOT, DOTDOT>> \o dbs)
    ELSE LET doc == _get_doc(objs, Tail(path), FALSE, FALSE)
         IN IF doc.kind = "raise" THEN Raise(doc.exc)
            ELSE IF ~isinstance_dict(doc.body) THEN Raise("AssertionError")
            ELSE IF is_db(doc.body)
                 THEN Names(<<DOT, DOTDOT>> \o docs_of(docs[db_name_of(doc.body)]))
            ELSE None

DirSize == 4096

\* Couch.getattr
Couch_getattr(objs, dbs, path) ==
    IF path = ROOT THEN RootAttrs(2 + Len(dbs))
    ELSE LET doc == _get_doc(objs, Tail(path), FALSE, FALSE)
         IN IF doc.kind = "raise" THEN Raise(doc.exc)
            ELSE IF ~isinstance_dict(doc.body) THEN Raise("AssertionError")
            ELSE IF is_db(doc.body) THEN Attrs("S_IFDIR", 2, DirSize)
            ELSE IF is_doc(doc.body)
                 THEN Attrs("S_IFREG", 1, Len(_get_doc_formated(doc.body)))
            ELSE Attrs("S_IFREG", 1, 0)

\* the address a call requests from the server first (ret.addr), and the
\* number of remote changes the server had seen when the call ran (ret.at)
addr_of(path) == IF path = ROOT THEN ALL_DBS ELSE _get_doc_id(Tail(path))

\* ------------------------------------------------------------ the machine
Call(op, path, size, offset, out) ==
    [op |-> op, path |-> path, size |-> size, offset |-> offset,
     addr |-> addr_of(path), at |-> nupd, out |-> out]

Init ==
    /\ objects = [a \in Addresses \cup {<<>>} |->
                    IF a = <<>> THEN Resp(OK, B_welcome)
                    ELSE IF a = ALPHA THEN Resp(OK, B_db)
                    ELSE IF a = ALPHA \o SLASH \o DOC1 THEN Resp(OK, B_doc1)
                    ELSE Resp(OK, B_design)]
    /\ all_dbs = <<ALPHA>>
    /\ all_docs = [d \in DbNames |->
                     IF d = ALPHA THEN <<DOC1, DESIGN_PREFIX \o VIEW1>>
                     ELSE <<>>]
    /\ nupd = 0
    /\ ret = [op |-> "none", path |-> ROOT, size |-> 0, offset |-> 0,
              addr |-> <<>>, at |-> 0, out |-> None]

\* the dispatcher calls getattr(path)
getattr(path) ==
    /\ ret' = Call("getattr", path, 0, 0, Couch_getattr(objects, all_dbs, path))
    /\ UNCHANGED <<objects, all_dbs, all_docs, nupd>>

\* the dispatcher calls readdir(path)
readdir(path) ==
    /\ ret' = Call("readdir", path, 0, 0,
                   Couch_readdir(objects, all_dbs, all_docs, path))
    /\ UNCHANGED <<objects, all_dbs, all_docs, nupd>>

\* read that answers a repeated request from the previous result
read_cached(path, size, offset) ==
    /\ ret' = IF /\ ret.op = "read" /\ ret.path = path
                 /\ ret.size = size /\ ret.offset = offset
              THEN Call("read", path, size, offset, ret.out)
              ELSE Call("read", path, size, offset,
                        Couch_read(objects, path, size, offset))
    /\ UNCHANGED <<objects, all_dbs, all_docs, nupd>>

\* the dispatcher calls read(path, size, offset)
read(path, size, offset) ==
    /\ ret' = Call("read", path, size, offset,
                   Couch_read(objects, path, size, offset))
    /\ UNCHANGED <<objects, all_dbs, all_docs, nupd>>

\* another client of the server changes what an address answers
RemotePut(addr, resp) ==
    /\ nupd < MaxUpdates
    /\ objects[addr] # resp
    /\ objects' = [objects EXCEPT ![addr] = resp]
    /\ nupd' = nupd + 1
    /\ UNCHANGED <<all_dbs, all_docs, ret>>

\* another client adds or removes documents of a database
RemoteDocs(db, rows) ==
    /\ nupd < MaxUpdates
    /\ all_docs[db] # rows
    /\ all_docs' = [all_docs EXCEPT ![db] = rows]
    /\ nupd' = nupd + 1
    /\ UNCHANGED <<objects, all_dbs, ret>>

\* another client creates or deletes a database
RemoteDbs(dbs) ==
    /\ nupd < MaxUpdates
    /\ all_dbs # dbs
    /\ all_dbs' = dbs
    /\ nupd' = nupd + 1
    /\ UNCHANGED <<objects, all_docs, ret>>

Next ==
    \/ \E path \in Paths : getattr(path)
    \/ \E path \in Paths : readdir(path)
    \/ \E path \in Paths, a \in ReadArgs : read(path, a[1], a[2])
    \/ \E addr \in Addresses, resp \in Responses : RemotePut(addr, resp)
    \/ \E db \in DbNames, rows \in Listings : RemoteDocs(db, rows)
    \/ \E dbs \in DbLists : RemoteDbs(dbs)

Spec == Init /\ [][Next]_vars

\* ------------------------------------------------------------- properties
\* the last call ran against the server as it is now
Fresh == ret.op # "none" /\ ret.at = nupd

\* the response the last call was given
Fetched == account_get(objects, ret.addr)

endswith(s, suf) ==
    /\ Len(suf) <= Len(s)
    /\ SubSeq(s, Len(s) - Len(suf) + 1, Len(s)) = suf

\* the classification of a fetched value: DatabaseDescriptor before Document
Classify(body) ==
    IF body.kind # "dict" THEN "Opaque"
    ELSE IF get_truthy(body, K_db_name) /\ get_truthy(body, K_update_seq)
         THEN "DatabaseDescriptor"
    ELSE IF get_truthy(body, K_id) /\ get_truthy(body, K_rev) THEN "Document"
    ELSE "Opaque"

Ops == {"getattr", "readdir", "read"}

\* C1: on a non-root path, when the fetch answers 404, getattr, readdir and
\* read all fail with ENOENT and return no attributes, names or bytes.
C1_NotFoundIsENOENT ==
    (/\ Fresh
     /\ ret.op \in Ops
     /\ ret.path # ROOT
     /\ Fetched.status_code = NOT_FOUND)
    => /\ ret.out.kind = "raise"
       /\ ret.out.exc = "ENOENT"
       /\ ret.out.attr = NoAttr
       /\ ret.out.names = <<>>
       /\ ret.out.data = <<>>

C1_Witness ==
    /\ Fresh
    /\ ret.op = "read"
    /\ ret.path = P_doc
    /\ nupd > 0
    /\ Fetched.status_code = NOT_FOUND
    /\ ret.out.exc = "ENOENT"

\* C2: getattr of a path that holds a Document, followed with no remote
\* change in between by a read of the same path at offset 0 with a size of
\* at least st_size: the read returns exactly st_size bytes.
C2_SizeIsReadLength ==
    [][(/\ Fresh
        /\ nupd' = nupd
        /\ ret.op = "getattr"
        /\ Fetched.status_code = OK
        /\ Classify(Fetched.body) = "Document"
        /\ ret'.op = "read"
        /\ ret'.path = ret.path
        /\ ret'.offset = 0
        /\ ret'.size >= ret.out.attr.st_size)
       => /\ ret.out.kind = "attrs"
          /\ ret'.out.kind = "bytes"
          /\ Len(ret'.out.data) = ret.out.attr.st_size]_vars

C2_Witness ==
    /\ Fresh
    /\ ret.op = "read"
    /\ ret.path = P_doc
    /\ ret.offset = 0
    /\ Fetched = Resp(OK, B_doc1b)
    /\ ret.out.kind = "bytes"
    /\ \E i \in 1..Len(ret.out.data) : ret.out.data[i] = "u"
    /\ Len(ret.out.data) < ret.size

\* C3: read of a path whose fetched value classifies as a DatabaseDescriptor
\* fails with EIO.
C3_ReadOfDatabaseIsEIO ==
    (/\ Fresh
     /\ ret.op = "read"
     /\ Fetched.status_code = OK
     /\ Classify(Fetched.body) = "DatabaseDescriptor")
    => /\ ret.out.kind = "raise"
       /\ ret.out.exc = "EIO"

\* C4: readdir of a database path that resolved to a DatabaseDescriptor
\* returns '.', '..' and then the non-design ids of that database's listing,
\* in order, each with '.json' appended; no name comes from a design id and
\* every name decodes through _get_doc_id to an id of the listing.
C4_ListingOfDatabase ==
    (/\ Fresh
     /\ ret.op = "readdir"
     /\ ret.path # ROOT
     /\ Fetched.status_code = OK
     /\ Classify(Fetched.body) = "DatabaseDescriptor")
    => LET rows == all_docs[db_name_of(Fetched.body)]
           plain == {i \in 1..Len(rows) : ~startswith(rows[i], DESIGN_PREFIX)}
           names == ret.out.names
       IN /\ ret.out.kind = "names"
          /\ Len(names) = 2 + Cardinality(plain)
          /\ names[1] = DOT
          /\ names[2] = DOTDOT
          /\ \A i \in plain :
                names[2 + Cardinality({j \in plain : j <= i})]
                    = rows[i] \o JSON_SUFFIX
          /\ \A n \in 3..Len(names) :
                /\ ~startswith(names[n], DESIGN_PREFIX)
                /\ \E i \in 1..Len(rows) : rows[i] = _get_doc_id(names[n])

C4_Witness ==
    /\ Fresh
    /\ ret.op = "readdir"
    /\ ret.path = P_db
    /\ Fetched = Resp(OK, B_db)
    /\ all_docs[ALPHA] = <<DESIGN_PREFIX \o VIEW1, XJSON, DOC1>>
    /\ ret.out.kind = "names"
    /\ Len(ret.out.names) = 4
    /\ ret.out.names[3] = XJSON \o JSON_SUFFIX

\* the server as it would be had the last fetch been answered with status 200
FetchedWithOK == [objects EXCEPT ![ret.addr] = Resp(OK, Fetched.body)]

\* C5: on a non-root path, a status other than 200 and 404 does not abort:
\* the call produces what it produces for the same body with status 200.
C5_OtherStatusLikeOK ==
    (/\ Fresh
     /\ ret.op \in Ops
     /\ ret.path # ROOT
     /\ ret.addr \in DOMAIN objects
     /\ Fetched.status_code \notin {OK, NOT_FOUND})
    => ret.out =
         IF ret.op = "getattr"
         THEN Couch_getattr(FetchedWithOK, all_dbs, ret.path)
         ELSE IF ret.op = "readdir"
         THEN Couch_readdir(FetchedWithOK, all_dbs, all_docs, ret.path)
         ELSE Couch_read(FetchedWithOK, ret.path, ret.size, ret.offset)

\* C6: getattr of a path whose body is not a key-mapping object, or does not
\* decode as JSON, returns a regular file with link count 1 and size 0.
C6_OpaqueIsEmptyFile ==
    (/\ Fresh
     /\ ret.op = "getattr"
     /\ ret.path # ROOT
     /\ Fetched.status_code = OK
     /\ Fetched.body.kind # "dict")
    => /\ Classify(Fetched.body) = "Opaque"
       /\ ret.out = Attrs("S_IFREG", 1, 0)

\* C7: getattr of a path whose fetched value carries both a database-name
\* field and an update-sequence field (update sequence 0 included) reports a
\* directory with link count 2 and size 4096.
C7_DatabaseIsDirectory ==
    (/\ Fresh
     /\ ret.op = "getattr"
     /\ ret.path # ROOT
     /\ Fetched.status_code = OK
     /\ Fetched.body.kind = "dict"
     /\ has_key(Fetched.body, K_db_name)
     /\ has_key(Fetched.body, K_update_seq))
    => ret.out = Attrs("S_IFDIR", 2, 4096)

\* C8: a call leaves the server as it was and its result is the operation's
\* value on its own arguments and the server's contents at the call; a read
\* of a document returns the rendering of the body the server holds now.
C8_StatelessCalls ==
    [][nupd' = nupd =>
        /\ UNCHANGED <<objects, all_dbs, all_docs>>
        /\ ret'.at = nupd
        /\ ret'.op = "getattr" =>
              ret'.out = Couch_getattr(objects, all_dbs, ret'.path)
        /\ ret'.op = "readdir" =>
              ret'.out = Couch_readdir(objects, all_dbs, all_docs, ret'.path)
        /\ ret'.op = "read" =>
              /\ ret'.out = Couch_read(objects, ret'.path, ret'.size,
                                       ret'.offset)
              /\ LET res == account_get(objects, ret'.addr)
                 IN (res.status_code = OK /\ res.body.kind = "dict"
                        /\ is_doc(res.body))
                    => ret'.out.data =
                         Slice(encode(dumps(res.body, TRUE)), ret'.offset,
                               ret'.offset + ret'.size)]_vars

C8_Witness ==
    /\ Fresh
    /\ nupd > 0
    /\ ret.op = "read"
    /\ ret.path = P_doc
    /\ ret.size = PageSize
    /\ ret.offset = 0
    /\ Fetched = Resp(OK, B_doc1b)
    /\ ret.out.data = encode(dumps(B_doc1b, TRUE))
    /\ ret.out.data # encode(dumps(B_doc1, TRUE))

C10_UnsuffixedVerbatim ==
    (/\ ret.op \in Ops
     /\ ret.path # ROOT
     /\ ~endswith(Tail(ret.path), JSON_SUFFIX))
    => ret.addr = Tail(ret.path)

====
